---- MODULE Spec2Model ----
(***************************************************************************)
(* Model of the DbEncryptToolFHE contract (src/unnamed/part_000): role and *)
(* pause administration, batch lifecycle, throttled submission, and the    *)
(* decryption request / callback protocol with its replay and state-hash   *)
(* checks.  Every external function is one action.  The last transaction   *)
(* is kept as called (the function), outcome (the error it reverted with,  *)
(* or "ok") and events (the events it emitted); a revert undoes every      *)
(* write.                                                                  *)
(*                                                                         *)
(* The web client (src/frontend/web/src/App.tsx) is modelled next to it:   *)
(* migrateRecord and loadRecords of each client, one action per await,     *)
(* over the key-value store they reach through setData and getData.        *)
(***************************************************************************)
EXTENDS Integers, Sequences, FiniteSets, TLC

VARIABLES
    owner,                      \* address public owner
    isProvider,                 \* mapping(address => bool)
    paused,                     \* bool public paused
    cooldownSeconds,            \* uint256 public cooldownSeconds
    lastSubmissionTime,         \* mapping(address => uint256)
    lastDecryptionRequestTime,  \* mapping(address => uint256)
    currentBatchId,             \* uint256 public currentBatchId
    batchClosed,                \* mapping(uint256 => bool)
    decryptionContexts,         \* mapping(uint256 => DecryptionContext)
    encryptedData,              \* mapping(uint256 => euint32)
    called,                     \* the last call: the function called
    outcome,                    \* receipt of the last call: "ok" or the revert error
    events,                     \* receipt of the last call: the events it emitted
    calls,                      \* number of state-changing calls so far
    counterRequest,             \* decryption oracle: next request id
    requestedHandles,           \* decryption oracle: handles saved per request id
    now,                        \* block.timestamp
    cooldownAtSubmission,       \* history: cooldownSeconds at each sender's last
                                \* accepted submission (-1: none yet)
    lifecycleLog,               \* history: the BatchClosed, DecryptionRequested and
                                \* DecryptionCompleted events emitted so far
    data,                       \* web client's store: bytes per key that was set
    mempool,                    \* setData transactions sent and not yet mined, in
                                \* the order they were sent
    ui                          \* per client that has the page open: where its
                                \* migrateRecord is, its locals (recordId, keys)
                                \* and its records state

storage == <<owner, isProvider, paused, cooldownSeconds, lastSubmissionTime,
             lastDecryptionRequestTime, currentBatchId, batchClosed,
             decryptionContexts, encryptedData>>
oracle == <<counterRequest, requestedHandles>>
receipt == <<called, outcome, events>>
frontend == <<data, mempool, ui>>
vars == <<storage, oracle, receipt, calls, now, cooldownAtSubmission, lifecycleLog,
          frontend>>

----------------------------------------------------------------------------
(* Bounds of the exploration.                                              *)

\* uint256 scaled down: the largest value of the unsigned integer type.
UintMax == 1000
\* block.timestamp of the deployment block.
StartTime == 100
\* Batches are opened up to this id.
MaxBatch == 2
\* The oracle hands out request ids 0 .. MaxReq - 1.
MaxReq == 2
\* State-changing calls explored after construction.
MaxCalls == 5
\* migrateRecord runs started by each web client.
MaxMigrations == 1

----------------------------------------------------------------------------
(* Values.                                                                 *)

Deployer == "alice"

\* The web clients: one per wallet address.
Clients == {"alice", "bob"}
\* recordId = `db_${Date.now()}_${random}`: a fresh name per run, here the
\* client and the number of its run.
RecordIds == Clients \X (1 .. MaxMigrations)
NoRecord == << >>
\* The keys of the store: "db_record_keys" and `db_record_${recordId}`.
KeysKey == <<"db_record_keys">>
RecordKey(recordId) == <<"db_record_", recordId>>
\* ethers.toUtf8Bytes(JSON.stringify(v)), and the bytes of a key never set.
ToJsonBytes(v) == <<"utf8-json", v>>
EmptyBytes == << >>
\* JSON.parse(ethers.toUtf8String(bytes)) of bytes written by ToJsonBytes.
ParseJsonBytes(bytes) == bytes[2]
Addresses == {"alice", "bob"}
ZeroAddress == "0x0"
This == "DbEncryptToolFHE"

\* euint32 handles: 0 is the uninitialized handle, the others are ciphertexts.
Handles == {1, 2}
AllHandles == {0} \cup Handles
\* The 32-bit plaintext behind a handle (known to the KMS only).
Plaintext(h) == IF h = 0 THEN 0 ELSE 1000 * h + 7

BatchIds == 0 .. MaxBatch + 1
RequestIds == 0 .. MaxReq

DefaultCooldown == 60
CooldownChoices == {0, UintMax}

\* Block timestamps: the deployment block and one a default cooldown later.
Times == { StartTime, StartTime + DefaultCooldown }

ZeroBytes32 == << >>
ZeroContext == [batchId |-> 0, stateHash |-> ZeroBytes32, processed |-> FALSE]

\* FHE.toBytes32: unwraps the handle.
toBytes32(h) == h

\* abi.encode of one uint32 / abi.decode(cleartexts, (uint32)).
AbiEncode(v) == <<"word", v>>
AbiDecodable(bytes) == Len(bytes) = 2 /\ bytes[1] = "word"
\* Mutant: the cleartext decoded as a uint8.
AbiDecode_AsUint8(bytes) == bytes[2] % 256

AbiDecode(bytes) == bytes[2]


\* A KMS signature over the handles of a request and their cleartexts.
KmsSign(handles, bytes) == <<"kms", handles, bytes>>
ForgedProof == <<"forged">>
\* What a relay can deliver: the KMS signs only the true decryption of a
\* handle; anything else comes with a proof the KMS did not make.
KmsResponse(h) == [cleartexts |-> AbiEncode(Plaintext(h)),
                   proof |-> KmsSign(<<h>>, AbiEncode(Plaintext(h)))]
Responses == { KmsResponse(h) : h \in AllHandles }
             \cup { [cleartexts |-> AbiEncode(Plaintext(1)), proof |-> ForgedProof] }

\* Checked uint256 addition: TRUE when a + b does not fit.
AddOverflows(a, b) == a + b > UintMax

----------------------------------------------------------------------------
(* Modifiers and internal functions.                                       *)

\* Mutant: an owner check that also lets providers through.
onlyOwner_OrProvider(sender) == sender = owner \/ isProvider[sender]

onlyOwner(sender) == sender = owner

\* Mutant: a provider check that also lets the owner through.
onlyProvider_OrOwner(sender) == isProvider[sender] \/ sender = owner

onlyProvider(sender) == isProvider[sender]

\* Mutant: whenNotPaused that lets every call through.
whenNotPaused_Ignored == TRUE

whenNotPaused == ~paused

\* Mutant: the hash of the ciphertexts alone, without address(this).
_hashCiphertexts_NoAddress(cts) == <<"keccak256", cts>>

_hashCiphertexts(cts) == <<"keccak256", cts, This>>

\* FHE.checkSignatures(requestId, cleartexts, proof): the proof must be the
\* KMS signature over the handles saved for requestId and the cleartexts.
checkSignatures(requestId, cleartexts, proof) ==
    /\ requestedHandles[requestId] # << >>
    /\ proof = KmsSign(requestedHandles[requestId], cleartexts)

\* A state-changing call is explored while the bound has room.
CallRoom == calls < MaxCalls

\* The events of a call that the lifecycle history keeps.
LifecycleEvents(logs) ==
    { logs[i] : i \in { j \in 1 .. Len(logs) :
          logs[j].name \in {"BatchClosed", "DecryptionRequested", "DecryptionCompleted"} } }

\* The call returns: its writes stay and its events are in the receipt and
\* in the log.
Succeeds(fn, logs) ==
    /\ called' = fn /\ outcome' = "ok" /\ events' = logs
    /\ lifecycleLog' = lifecycleLog \cup LifecycleEvents(logs)
    /\ UNCHANGED frontend

\* The call reverts with err: nothing is written and nothing is emitted.
Reverts(fn, err) ==
    /\ called' = fn
    /\ outcome' = err
    /\ events' = << >>
    /\ UNCHANGED <<storage, oracle, calls, now, cooldownAtSubmission, lifecycleLog,
                   frontend>>

----------------------------------------------------------------------------
Init ==
    /\ owner = Deployer
    /\ isProvider = [a \in Addresses |-> FALSE]
    /\ paused = FALSE
    /\ cooldownSeconds = DefaultCooldown
    /\ lastSubmissionTime = [a \in Addresses |-> 0]
    /\ lastDecryptionRequestTime = [a \in Addresses |-> 0]
    /\ currentBatchId = 1
    /\ batchClosed = [b \in BatchIds |-> FALSE]
    /\ decryptionContexts = [r \in RequestIds |-> ZeroContext]
    /\ encryptedData = [b \in BatchIds |-> 0]
    /\ called = "constructor"
    /\ outcome = "ok"
    /\ events = << [name |-> "OwnershipTransferred", previousOwner |-> ZeroAddress,
                    newOwner |-> Deployer],
                   [name |-> "BatchOpened", batchId |-> 1] >>
    /\ calls = 0
    /\ counterRequest = 0
    /\ requestedHandles = [r \in RequestIds |-> << >>]
    /\ now = StartTime
    /\ cooldownAtSubmission = [a \in Addresses |-> -1]
    /\ lifecycleLog = {}
    /\ data = << >>
    /\ mempool = << >>
    /\ ui = << >>

----------------------------------------------------------------------------
(* Role and lifecycle administration.                                      *)

transferOwnershipOutcome(sender) ==
    IF ~onlyOwner(sender) THEN "NotOwner" ELSE "ok"

\* Mutant: transferOwnership that emits its event and forgets the write.
transferOwnership_NoWrite(sender, newOwner) ==
    LET out == transferOwnershipOutcome(sender) IN
    IF out # "ok" THEN Reverts("transferOwnership", out)
    ELSE /\ CallRoom
         /\ Succeeds("transferOwnership", << [name |-> "OwnershipTransferred", previousOwner |-> owner,
                         newOwner |-> newOwner] >>)
         /\ calls' = calls + 1
         /\ UNCHANGED <<storage, oracle, now, cooldownAtSubmission>>

transferOwnership(sender, newOwner) ==
    LET out == transferOwnershipOutcome(sender) IN
    IF out # "ok" THEN Reverts("transferOwnership", out)
    ELSE /\ CallRoom
         /\ owner' = newOwner
         /\ Succeeds("transferOwnership", << [name |-> "OwnershipTransferred", previousOwner |-> owner,
                         newOwner |-> newOwner] >>)
         /\ calls' = calls + 1
         /\ UNCHANGED <<isProvider, paused, cooldownSeconds, lastSubmissionTime,
                        lastDecryptionRequestTime, currentBatchId, batchClosed,
                        decryptionContexts, encryptedData, oracle, now, cooldownAtSubmission>>

addProviderOutcome(sender) ==
    IF ~onlyOwner(sender) THEN "NotOwner" ELSE "ok"

\* Mutant: addProvider that writes and emits without looking at the set.
addProvider_AlwaysEmits(sender, provider) ==
    LET out == addProviderOutcome(sender) IN
    IF out # "ok" THEN Reverts("addProvider", out)
    ELSE /\ CallRoom
         /\ isProvider' = [isProvider EXCEPT ![provider] = TRUE]
         /\ Succeeds("addProvider", << [name |-> "ProviderAdded", provider |-> provider] >>)
         /\ calls' = calls + 1
         /\ UNCHANGED <<owner, paused, cooldownSeconds, lastSubmissionTime,
                        lastDecryptionRequestTime, currentBatchId, batchClosed,
                        decryptionContexts, encryptedData, oracle, now, cooldownAtSubmission>>

addProvider(sender, provider) ==
    LET out == addProviderOutcome(sender) IN
    IF out # "ok" THEN Reverts("addProvider", out)
    ELSE IF ~isProvider[provider]
    THEN /\ CallRoom
         /\ isProvider' = [isProvider EXCEPT ![provider] = TRUE]
         /\ Succeeds("addProvider", << [name |-> "ProviderAdded", provider |-> provider] >>)
         /\ calls' = calls + 1
         /\ UNCHANGED <<owner, paused, cooldownSeconds, lastSubmissionTime,
                        lastDecryptionRequestTime, currentBatchId, batchClosed,
                        decryptionContexts, encryptedData, oracle, now, cooldownAtSubmission>>
    ELSE /\ Succeeds("addProvider", << >>)
         /\ UNCHANGED <<storage, oracle, calls, now, cooldownAtSubmission>>

removeProviderOutcome(sender) ==
    IF ~onlyOwner(sender) THEN "NotOwner" ELSE "ok"

removeProvider(sender, provider) ==
    LET out == removeProviderOutcome(sender) IN
    IF out # "ok" THEN Reverts("removeProvider", out)
    ELSE IF isProvider[provider]
    THEN /\ CallRoom
         /\ isProvider' = [isProvider EXCEPT ![provider] = FALSE]
         /\ Succeeds("removeProvider", << [name |-> "ProviderRemoved", provider |-> provider] >>)
         /\ calls' = calls + 1
         /\ UNCHANGED <<owner, paused, cooldownSeconds, lastSubmissionTime,
                        lastDecryptionRequestTime, currentBatchId, batchClosed,
                        decryptionContexts, encryptedData, oracle, now, cooldownAtSubmission>>
    ELSE /\ Succeeds("removeProvider", << >>)
         /\ UNCHANGED <<storage, oracle, calls, now, cooldownAtSubmission>>

\* Mutant: pause without whenNotPaused.
pauseOutcome_NoPausedCheck(sender) ==
    IF ~onlyOwner(sender) THEN "NotOwner" ELSE "ok"

pauseOutcome(sender) ==
    IF ~onlyOwner(sender) THEN "NotOwner"
    ELSE IF ~whenNotPaused THEN "PausedContract"
    ELSE "ok"

pause(sender) ==
    LET out == pauseOutcome(sender) IN
    IF out # "ok" THEN Reverts("pause", out)
    ELSE /\ CallRoom
         /\ paused' = TRUE
         /\ Succeeds("pause", << [name |-> "Paused", account |-> sender] >>)
         /\ calls' = calls + 1
         /\ UNCHANGED <<owner, isProvider, cooldownSeconds, lastSubmissionTime,
                        lastDecryptionRequestTime, currentBatchId, batchClosed,
                        decryptionContexts, encryptedData, oracle, now, cooldownAtSubmission>>

unpauseOutcome(sender) ==
    IF ~onlyOwner(sender) THEN "NotOwner"
    ELSE IF ~paused THEN "PausedContract"
    ELSE "ok"

unpause(sender) ==
    LET out == unpauseOutcome(sender) IN
    IF out # "ok" THEN Reverts("unpause", out)
    ELSE /\ CallRoom
         /\ paused' = FALSE
         /\ Succeeds("unpause", << [name |-> "Unpaused", account |-> sender] >>)
         /\ calls' = calls + 1
         /\ UNCHANGED <<owner, isProvider, cooldownSeconds, lastSubmissionTime,
                        lastDecryptionRequestTime, currentBatchId, batchClosed,
                        decryptionContexts, encryptedData, oracle, now, cooldownAtSubmission>>

setCooldownSecondsOutcome(sender) ==
    IF ~onlyOwner(sender) THEN "NotOwner" ELSE "ok"

\* Mutant: setCooldownSeconds that emits after the write, logging the new
\* value twice.
setCooldownSeconds_EmitsAfterWrite(sender, newCooldownSeconds) ==
    LET out == setCooldownSecondsOutcome(sender) IN
    IF out # "ok" THEN Reverts("setCooldownSeconds", out)
    ELSE /\ CallRoom
         /\ cooldownSeconds' = newCooldownSeconds
         /\ Succeeds("setCooldownSeconds", << [name |-> "CooldownSecondsSet",
                         oldCooldownSeconds |-> newCooldownSeconds,
                         newCooldownSeconds |-> newCooldownSeconds] >>)
         /\ calls' = calls + 1
         /\ UNCHANGED <<owner, isProvider, paused, lastSubmissionTime,
                        lastDecryptionRequestTime, currentBatchId, batchClosed,
                        decryptionContexts, encryptedData, oracle, now, cooldownAtSubmission>>

setCooldownSeconds(sender, newCooldownSeconds) ==
    LET out == setCooldownSecondsOutcome(sender) IN
    IF out # "ok" THEN Reverts("setCooldownSeconds", out)
    ELSE /\ CallRoom
         /\ cooldownSeconds' = newCooldownSeconds
         /\ Succeeds("setCooldownSeconds", << [name |-> "CooldownSecondsSet",
                         oldCooldownSeconds |-> cooldownSeconds,
                         newCooldownSeconds |-> newCooldownSeconds] >>)
         /\ calls' = calls + 1
         /\ UNCHANGED <<owner, isProvider, paused, lastSubmissionTime,
                        lastDecryptionRequestTime, currentBatchId, batchClosed,
                        decryptionContexts, encryptedData, oracle, now, cooldownAtSubmission>>

----------------------------------------------------------------------------
(* Batch lifecycle.                                                        *)

\* Mutant: openNewBatch with whenNotPaused.
openNewBatchOutcome_WhenNotPaused(sender) ==
    IF ~onlyOwner(sender) THEN "NotOwner"
    ELSE IF ~whenNotPaused THEN "PausedContract"
    ELSE "ok"

openNewBatchOutcome(sender) ==
    IF ~onlyOwner(sender) THEN "NotOwner" ELSE "ok"

openNewBatch(sender) ==
    LET out == openNewBatchOutcome(sender) IN
    IF out # "ok" THEN Reverts("openNewBatch", out)
    ELSE /\ CallRoom
         /\ currentBatchId < MaxBatch
         /\ currentBatchId' = currentBatchId + 1
         /\ Succeeds("openNewBatch", << [name |-> "BatchOpened", batchId |-> currentBatchId + 1] >>)
         /\ calls' = calls + 1
         /\ UNCHANGED <<owner, isProvider, paused, cooldownSeconds, lastSubmissionTime,
                        lastDecryptionRequestTime, batchClosed,
                        decryptionContexts, encryptedData, oracle, now, cooldownAtSubmission>>

\* Mutant: closeBatch without its already-closed check.
closeBatchOutcome_NoClosedCheck(sender, batchId) ==
    IF ~onlyOwner(sender) THEN "NotOwner"
    ELSE IF batchId = 0 \/ batchId > currentBatchId THEN "InvalidBatchId"
    ELSE "ok"

\* Mutant: closeBatch that only accepts the current batch.
closeBatchOutcome_CurrentOnly(sender, batchId) ==
    IF ~onlyOwner(sender) THEN "NotOwner"
    ELSE IF batchId # currentBatchId \/ batchClosed[batchId] THEN "InvalidBatchId"
    ELSE "ok"

closeBatchOutcome(sender, batchId) ==
    IF ~onlyOwner(sender) THEN "NotOwner"
    ELSE IF batchId = 0 \/ batchId > currentBatchId \/ batchClosed[batchId]
         THEN "InvalidBatchId"
    ELSE "ok"

\* Mutant: closeBatch that closes the batch without emitting BatchClosed.
closeBatch_Silent(sender, batchId) ==
    LET out == closeBatchOutcome(sender, batchId) IN
    IF out # "ok" THEN Reverts("closeBatch", out)
    ELSE /\ CallRoom
         /\ batchClosed' = [batchClosed EXCEPT ![batchId] = TRUE]
         /\ Succeeds("closeBatch", << >>)
         /\ calls' = calls + 1
         /\ UNCHANGED <<owner, isProvider, paused, cooldownSeconds, lastSubmissionTime,
                        lastDecryptionRequestTime, currentBatchId,
                        decryptionContexts, encryptedData, oracle, now, cooldownAtSubmission>>

closeBatch(sender, batchId) ==
    LET out == closeBatchOutcome(sender, batchId) IN
    IF out # "ok" THEN Reverts("closeBatch", out)
    ELSE /\ CallRoom
         /\ batchClosed' = [batchClosed EXCEPT ![batchId] = TRUE]
         /\ Succeeds("closeBatch", << [name |-> "BatchClosed", batchId |-> batchId] >>)
         /\ calls' = calls + 1
         /\ UNCHANGED <<owner, isProvider, paused, cooldownSeconds, lastSubmissionTime,
                        lastDecryptionRequestTime, currentBatchId,
                        decryptionContexts, encryptedData, oracle, now, cooldownAtSubmission>>

----------------------------------------------------------------------------
(* Submission and cooldown.                                                *)

\* Mutant: the cooldown check with <= for <.
CooldownCheck_OffByOne(last) ==
    IF AddOverflows(last, cooldownSeconds) THEN "Panic"
    ELSE IF now <= last + cooldownSeconds THEN "CooldownActive"
    ELSE "ok"

\* if (block.timestamp < last + cooldownSeconds) revert CooldownActive();
\* the addition is checked and panics when it does not fit.
\* Mutant: a caller with no earlier call (last = 0) is not throttled.
CooldownCheck_SkipsFirstCall(last) ==
    IF last = 0 THEN "ok"
    ELSE IF AddOverflows(last, cooldownSeconds) THEN "Panic"
    ELSE IF now < last + cooldownSeconds THEN "CooldownActive"
    ELSE "ok"

CooldownCheck(last) ==
    IF AddOverflows(last, cooldownSeconds) THEN "Panic"
    ELSE IF now < last + cooldownSeconds THEN "CooldownActive"
    ELSE "ok"

\* Mutant: submitEncryptedData without its closed-batch check.
submitEncryptedDataOutcome_NoClosedCheck(sender) ==
    IF ~onlyProvider(sender) THEN "NotProvider"
    ELSE IF ~whenNotPaused THEN "PausedContract"
    ELSE IF CooldownCheck(lastSubmissionTime[sender]) # "ok"
         THEN CooldownCheck(lastSubmissionTime[sender])
    ELSE "ok"

submitEncryptedDataOutcome(sender) ==
    IF ~onlyProvider(sender) THEN "NotProvider"
    ELSE IF ~whenNotPaused THEN "PausedContract"
    ELSE IF CooldownCheck(lastSubmissionTime[sender]) # "ok"
         THEN CooldownCheck(lastSubmissionTime[sender])
    ELSE IF batchClosed[currentBatchId] THEN "BatchClosedOrInvalid"
    ELSE "ok"

\* Mutant: submitEncryptedData that writes the oldest open batch's slot.
submitEncryptedData_WritesOldestOpen(sender, encryptedValue) ==
    LET out == submitEncryptedDataOutcome(sender)
        open == {b \in 1 .. currentBatchId : ~batchClosed[b]}
        target == CHOOSE b \in open : \A c \in open : b <= c IN
    IF out # "ok" THEN Reverts("submitEncryptedData", out)
    ELSE /\ CallRoom
         /\ lastSubmissionTime' = [lastSubmissionTime EXCEPT ![sender] = now]
         /\ encryptedData' = [encryptedData EXCEPT ![target] = encryptedValue]
         /\ Succeeds("submitEncryptedData", << [name |-> "DataSubmitted", provider |-> sender,
                         batchId |-> target,
                         encryptedValue |-> encryptedValue] >>)
         /\ calls' = calls + 1
         /\ cooldownAtSubmission' =
                [cooldownAtSubmission EXCEPT ![sender] = cooldownSeconds]
         /\ UNCHANGED <<owner, isProvider, paused, cooldownSeconds,
                        lastDecryptionRequestTime, currentBatchId, batchClosed,
                        decryptionContexts, oracle, now>>

\* Mutant: submitEncryptedData that keeps a slot once it has been written.
submitEncryptedData_FirstWriterWins(sender, encryptedValue) ==
    LET out == submitEncryptedDataOutcome(sender) IN
    IF out # "ok" THEN Reverts("submitEncryptedData", out)
    ELSE /\ CallRoom
         /\ lastSubmissionTime' = [lastSubmissionTime EXCEPT ![sender] = now]
         /\ encryptedData' = IF encryptedData[currentBatchId] = 0
                             THEN [encryptedData EXCEPT ![currentBatchId] = encryptedValue]
                             ELSE encryptedData
         /\ Succeeds("submitEncryptedData", << [name |-> "DataSubmitted", provider |-> sender,
                         batchId |-> currentBatchId,
                         encryptedValue |-> encryptedValue] >>)
         /\ calls' = calls + 1
         /\ cooldownAtSubmission' =
                [cooldownAtSubmission EXCEPT ![sender] = cooldownSeconds]
         /\ UNCHANGED <<owner, isProvider, paused, cooldownSeconds,
                        lastDecryptionRequestTime, currentBatchId, batchClosed,
                        decryptionContexts, oracle, now>>

submitEncryptedData(sender, encryptedValue) ==
    LET out == submitEncryptedDataOutcome(sender) IN
    IF out # "ok" THEN Reverts("submitEncryptedData", out)
    ELSE /\ CallRoom
         /\ lastSubmissionTime' = [lastSubmissionTime EXCEPT ![sender] = now]
         /\ encryptedData' = [encryptedData EXCEPT ![currentBatchId] = encryptedValue]
         /\ Succeeds("submitEncryptedData", << [name |-> "DataSubmitted", provider |-> sender,
                         batchId |-> currentBatchId,
                         encryptedValue |-> encryptedValue] >>)
         /\ calls' = calls + 1
         /\ cooldownAtSubmission' =
                [cooldownAtSubmission EXCEPT ![sender] = cooldownSeconds]
         /\ UNCHANGED <<owner, isProvider, paused, cooldownSeconds,
                        lastDecryptionRequestTime, currentBatchId, batchClosed,
                        decryptionContexts, oracle, now>>

----------------------------------------------------------------------------
(* Decryption request and callback.                                        *)

\* Mutant: requestDecryptionForBatch without its batch-is-closed check.
requestDecryptionForBatchOutcome_AllowsOpen(sender, batchId) ==
    IF ~onlyProvider(sender) THEN "NotProvider"
    ELSE IF ~whenNotPaused THEN "PausedContract"
    ELSE IF CooldownCheck(lastDecryptionRequestTime[sender]) # "ok"
         THEN CooldownCheck(lastDecryptionRequestTime[sender])
    ELSE IF batchId = 0 \/ batchId > currentBatchId THEN "InvalidBatchId"
    ELSE "ok"

requestDecryptionForBatchOutcome(sender, batchId) ==
    IF ~onlyProvider(sender) THEN "NotProvider"
    ELSE IF ~whenNotPaused THEN "PausedContract"
    ELSE IF CooldownCheck(lastDecryptionRequestTime[sender]) # "ok"
         THEN CooldownCheck(lastDecryptionRequestTime[sender])
    ELSE IF batchId = 0 \/ batchId > currentBatchId \/ ~batchClosed[batchId]
         THEN "InvalidBatchId"
    ELSE "ok"

\* FHE.requestDecryption: the oracle saves the handles under its next
\* request id and returns that id.
FHE_requestDecryption(cts) ==
    /\ counterRequest' = counterRequest + 1
    /\ requestedHandles' = [requestedHandles EXCEPT ![counterRequest] = cts]

\* Mutant: the request snapshots the current batch's slot, not the slot of
\* the batch it was asked for.
requestDecryptionForBatch_HashesCurrent(sender, batchId) ==
    LET out == requestDecryptionForBatchOutcome(sender, batchId)
        cts == << toBytes32(encryptedData[batchId]) >>
        stateHash == _hashCiphertexts(<< toBytes32(encryptedData[currentBatchId]) >>)
        requestId == counterRequest IN
    IF out # "ok" THEN Reverts("requestDecryptionForBatch", out)
    ELSE /\ CallRoom
         /\ counterRequest < MaxReq
         /\ lastDecryptionRequestTime' =
                [lastDecryptionRequestTime EXCEPT ![sender] = now]
         /\ FHE_requestDecryption(cts)
         /\ decryptionContexts' = [decryptionContexts EXCEPT ![requestId] =
                [batchId |-> batchId, stateHash |-> stateHash, processed |-> FALSE]]
         /\ Succeeds("requestDecryptionForBatch", << [name |-> "DecryptionRequested", requestId |-> requestId,
                         batchId |-> batchId] >>)
         /\ calls' = calls + 1
         /\ UNCHANGED <<owner, isProvider, paused, cooldownSeconds, lastSubmissionTime,
                        currentBatchId, batchClosed, encryptedData, now, cooldownAtSubmission>>

requestDecryptionForBatch(sender, batchId) ==
    LET out == requestDecryptionForBatchOutcome(sender, batchId)
        cts == << toBytes32(encryptedData[batchId]) >>
        stateHash == _hashCiphertexts(cts)
        requestId == counterRequest IN
    IF out # "ok" THEN Reverts("requestDecryptionForBatch", out)
    ELSE /\ CallRoom
         /\ counterRequest < MaxReq
         /\ lastDecryptionRequestTime' =
                [lastDecryptionRequestTime EXCEPT ![sender] = now]
         /\ FHE_requestDecryption(cts)
         /\ decryptionContexts' = [decryptionContexts EXCEPT ![requestId] =
                [batchId |-> batchId, stateHash |-> stateHash, processed |-> FALSE]]
         /\ Succeeds("requestDecryptionForBatch", << [name |-> "DecryptionRequested", requestId |-> requestId,
                         batchId |-> batchId] >>)
         /\ calls' = calls + 1
         /\ UNCHANGED <<owner, isProvider, paused, cooldownSeconds, lastSubmissionTime,
                        currentBatchId, batchClosed, encryptedData, now, cooldownAtSubmission>>

\* Mutant: the callback without its replay check.
myCallbackOutcome_NoReplayCheck(requestId, cleartexts, proof) ==
    LET ctx == decryptionContexts[requestId]
        cts == << toBytes32(encryptedData[ctx.batchId]) >>
        currentHash == _hashCiphertexts(cts) IN
    IF currentHash # ctx.stateHash THEN "StateMismatch"
    ELSE IF ~checkSignatures(requestId, cleartexts, proof) THEN "InvalidProof"
    ELSE IF ~AbiDecodable(cleartexts) THEN "DecodeError"
    ELSE "ok"

\* Mutant: the callback without its signature check.
myCallbackOutcome_NoProofCheck(requestId, cleartexts, proof) ==
    LET ctx == decryptionContexts[requestId]
        cts == << toBytes32(encryptedData[ctx.batchId]) >>
        currentHash == _hashCiphertexts(cts) IN
    IF decryptionContexts[requestId].processed THEN "ReplayAttempt"
    ELSE IF currentHash # ctx.stateHash THEN "StateMismatch"
    ELSE IF ~AbiDecodable(cleartexts) THEN "DecodeError"
    ELSE "ok"

\* Mutant: the callback with whenNotPaused.
myCallbackOutcome_WhenNotPaused(requestId, cleartexts, proof) ==
    LET ctx == decryptionContexts[requestId]
        cts == << toBytes32(encryptedData[ctx.batchId]) >>
        currentHash == _hashCiphertexts(cts) IN
    IF ~whenNotPaused THEN "PausedContract"
    ELSE IF decryptionContexts[requestId].processed THEN "ReplayAttempt"
    ELSE IF currentHash # ctx.stateHash THEN "StateMismatch"
    ELSE IF ~checkSignatures(requestId, cleartexts, proof) THEN "InvalidProof"
    ELSE IF ~AbiDecodable(cleartexts) THEN "DecodeError"
    ELSE "ok"

\* Mutant: the callback accepts a request only after all earlier requests
\* were processed.
myCallbackOutcome_InOrder(requestId, cleartexts, proof) ==
    LET ctx == decryptionContexts[requestId]
        cts == << toBytes32(encryptedData[ctx.batchId]) >>
        currentHash == _hashCiphertexts(cts) IN
    IF decryptionContexts[requestId].processed THEN "ReplayAttempt"
    ELSE IF \E q \in 0 .. requestId - 1 : ~decryptionContexts[q].processed
         THEN "ReplayAttempt"
    ELSE IF currentHash # ctx.stateHash THEN "StateMismatch"
    ELSE IF ~checkSignatures(requestId, cleartexts, proof) THEN "InvalidProof"
    ELSE IF ~AbiDecodable(cleartexts) THEN "DecodeError"
    ELSE "ok"

myCallbackOutcome(requestId, cleartexts, proof) ==
    LET ctx == decryptionContexts[requestId]
        cts == << toBytes32(encryptedData[ctx.batchId]) >>
        currentHash == _hashCiphertexts(cts) IN
    IF decryptionContexts[requestId].processed THEN "ReplayAttempt"
    ELSE IF currentHash # ctx.stateHash THEN "StateMismatch"
    ELSE IF ~checkSignatures(requestId, cleartexts, proof) THEN "InvalidProof"
    ELSE IF ~AbiDecodable(cleartexts) THEN "DecodeError"
    ELSE "ok"

\* The writes of an accepted callback.
\* Mutant: an accepted callback that also clears the decrypted batch's slot.
myCallbackWrites_ClearsSlot(requestId, cleartexts) ==
    LET ctx == decryptionContexts[requestId] IN
    /\ decryptionContexts' = [decryptionContexts EXCEPT ![requestId] =
           [ctx EXCEPT !.processed = TRUE]]
    /\ encryptedData' = [encryptedData EXCEPT ![ctx.batchId] = 0]
    /\ Succeeds("myCallback",
                << [name |-> "DecryptionCompleted", requestId |-> requestId,
                    batchId |-> ctx.batchId,
                    decryptedValue |-> AbiDecode(cleartexts)] >>)
    /\ calls' = calls + 1
    /\ UNCHANGED <<owner, isProvider, paused, cooldownSeconds, lastSubmissionTime,
                   lastDecryptionRequestTime, currentBatchId, batchClosed,
                   oracle, now, cooldownAtSubmission>>

\* Mutant: an accepted callback that deletes the request's context.
myCallbackWrites_DeletesContext(requestId, cleartexts) ==
    LET ctx == decryptionContexts[requestId] IN
    /\ decryptionContexts' = [decryptionContexts EXCEPT ![requestId] = ZeroContext]
    /\ Succeeds("myCallback",
                << [name |-> "DecryptionCompleted", requestId |-> requestId,
                    batchId |-> ctx.batchId,
                    decryptedValue |-> AbiDecode(cleartexts)] >>)
    /\ calls' = calls + 1
    /\ UNCHANGED <<owner, isProvider, paused, cooldownSeconds, lastSubmissionTime,
                   lastDecryptionRequestTime, currentBatchId, batchClosed,
                   encryptedData, oracle, now, cooldownAtSubmission>>

myCallbackWrites(requestId, cleartexts) ==
    LET ctx == decryptionContexts[requestId] IN
    /\ decryptionContexts' = [decryptionContexts EXCEPT ![requestId] =
           [ctx EXCEPT !.processed = TRUE]]
    /\ Succeeds("myCallback",
                << [name |-> "DecryptionCompleted", requestId |-> requestId,
                    batchId |-> ctx.batchId,
                    decryptedValue |-> AbiDecode(cleartexts)] >>)
    /\ calls' = calls + 1
    /\ UNCHANGED <<owner, isProvider, paused, cooldownSeconds, lastSubmissionTime,
                   lastDecryptionRequestTime, currentBatchId, batchClosed,
                   encryptedData, oracle, now, cooldownAtSubmission>>

\* Mutant: the callback marks the request processed before it verifies the
\* proof and reports a failed verification without reverting.
myCallback_MarksBeforeVerify(sender, requestId, cleartexts, proof) ==
    LET out == myCallbackOutcome(requestId, cleartexts, proof) IN
    IF out = "InvalidProof"
    THEN /\ CallRoom
         /\ decryptionContexts' = [decryptionContexts EXCEPT
                ![requestId] = [@ EXCEPT !.processed = TRUE]]
         /\ called' = "myCallback" /\ outcome' = out /\ events' = << >>
         /\ calls' = calls + 1
         /\ UNCHANGED <<owner, isProvider, paused, cooldownSeconds, lastSubmissionTime,
                        lastDecryptionRequestTime, currentBatchId, batchClosed,
                        encryptedData, oracle, now, cooldownAtSubmission, lifecycleLog,
                        frontend>>
    ELSE IF out # "ok" THEN Reverts("myCallback", out)
    ELSE CallRoom /\ myCallbackWrites(requestId, cleartexts)

\* Mutant: the callback restricted to providers.
myCallback_OnlyProvider(sender, requestId, cleartexts, proof) ==
    LET out == IF ~onlyProvider(sender) THEN "NotProvider"
               ELSE myCallbackOutcome(requestId, cleartexts, proof) IN
    IF out # "ok" THEN Reverts("myCallback", out)
    ELSE CallRoom /\ myCallbackWrites(requestId, cleartexts)

myCallback(sender, requestId, cleartexts, proof) ==
    LET out == myCallbackOutcome(requestId, cleartexts, proof) IN
    IF out # "ok" THEN Reverts("myCallback", out)
    ELSE CallRoom /\ myCallbackWrites(requestId, cleartexts)

----------------------------------------------------------------------------
(* The chain: a later block.                                               *)

Tick ==
    /\ \E t \in Times : t > now /\ now' = t
    /\ UNCHANGED <<storage, oracle, receipt, calls, cooldownAtSubmission, lifecycleLog,
                   frontend>>

\* Arguments tried: 0, every batch opened so far and the first id not yet
\* opened; every request id issued so far and the first one not yet issued.
BatchArgs == 0 .. currentBatchId + 1
RequestArgs == 0 .. counterRequest

\* transferOwnership takes any address, the zero address included.
NewOwners == Addresses \cup {ZeroAddress}

Next ==
    \/ \E s \in Addresses, a \in NewOwners : transferOwnership(s, a)
    \/ \E s \in Addresses, a \in Addresses : addProvider(s, a)
    \/ \E s \in Addresses, a \in Addresses : removeProvider(s, a)
    \/ \E s \in Addresses : pause(s)
    \/ \E s \in Addresses : unpause(s)
    \/ \E s \in Addresses, c \in CooldownChoices : setCooldownSeconds(s, c)
    \/ \E s \in Addresses : openNewBatch(s)
    \/ \E s \in Addresses, b \in BatchArgs : closeBatch(s, b)
    \/ \E s \in Addresses, h \in Handles : submitEncryptedData(s, h)
    \/ \E s \in Addresses, b \in BatchArgs : requestDecryptionForBatch(s, b)
    \/ \E s \in Addresses, r \in RequestArgs, m \in Responses :
           myCallback(s, r, m.cleartexts, m.proof)
    \/ Tick

Spec == Init /\ [][Next]_vars

----------------------------------------------------------------------------
(* The web client: the page's mount effect, migrateRecord and loadRecords  *)
(* (App.tsx).  Each await is one step.  A setData call returns when the    *)
(* wallet has sent the transaction (the code does not wait for it to be    *)
(* mined); a client's transactions are mined in the order it sent them.    *)
(* getData reads the mined store.                                          *)

\* contract.getData(key) of the store: empty bytes for a key never set.
getData(key) == IF key \in DOMAIN data THEN data[key] ELSE EmptyBytes

\* contract.setData(key, value) by client c: the transaction is sent.
setData(c, key, value) ==
    mempool' = Append(mempool, [sender |-> c, key |-> key, value |-> value])

\* The earliest transaction of client c that is not yet mined is mined.
Mine(c) ==
    /\ \E i \in 1 .. Len(mempool) : mempool[i].sender = c
    /\ LET i == CHOOSE j \in 1 .. Len(mempool) :
                   /\ mempool[j].sender = c
                   /\ \A k \in 1 .. j - 1 : mempool[k].sender # c
           tx == mempool[i] IN
       /\ data' = [k \in DOMAIN data \cup {tx.key} |->
                      IF k = tx.key THEN tx.value ELSE data[k]]
       /\ mempool' = SubSeq(mempool, 1, i - 1) \o SubSeq(mempool, i + 1, Len(mempool))
    /\ UNCHANGED <<storage, oracle, receipt, calls, now, cooldownAtSubmission,
                   lifecycleLog, ui>>

\* The key index as the code reads it: [] when the bytes are empty.
ReadKeys ==
    IF Len(getData(KeysKey)) > 0 THEN ParseJsonBytes(getData(KeysKey)) ELSE << >>

\* The component is mounted for client c: its state is the useState
\* defaults and the mount effect calls loadRecords.
mount(c) ==
    /\ c \notin DOMAIN ui
    /\ ui' = [k \in DOMAIN ui \cup {c} |->
                 IF k = c THEN [step |-> "loadRecords", runs |-> 0,
                                recordId |-> NoRecord, keys |-> << >>,
                                records |-> << >>, migrated |-> {}]
                 ELSE ui[k]]
    /\ UNCHANGED <<storage, oracle, receipt, calls, now, cooldownAtSubmission,
                   lifecycleLog, data, mempool>>

\* migrateRecord up to the first setData: a fresh recordId, the record
\* blob, and the transaction that stores it; when the wallet rejects the
\* transaction the run ends in the catch block.
migrateRecord_setRecord(c, rejected) ==
    /\ c \in DOMAIN ui
    /\ ui[c].step = "idle"
    /\ ui[c].runs < MaxMigrations
    /\ LET recordId == <<c, ui[c].runs + 1>>
           recordData == [id |-> recordId, timestamp |-> now, owner |-> c,
                          status |-> "encrypted"] IN
       IF rejected
       THEN /\ ui' = [ui EXCEPT ![c].runs = @ + 1, ![c].recordId = recordId]
            /\ UNCHANGED mempool
       ELSE /\ setData(c, RecordKey(recordId), ToJsonBytes(recordData))
            /\ ui' = [ui EXCEPT ![c].runs = @ + 1, ![c].recordId = recordId,
                                ![c].step = "getKeys"]
    /\ UNCHANGED <<storage, oracle, receipt, calls, now, cooldownAtSubmission,
                   lifecycleLog, data>>

\* const keysBytes = await contract.getData("db_record_keys"); parse;
\* keys.push(recordId).
migrateRecord_getKeys(c) ==
    /\ c \in DOMAIN ui
    /\ ui[c].step = "getKeys"
    /\ ui' = [ui EXCEPT ![c].keys = Append(ReadKeys, ui[c].recordId),
                        ![c].step = "setKeys"]
    /\ UNCHANGED <<storage, oracle, receipt, calls, now, cooldownAtSubmission,
                   lifecycleLog, data, mempool>>

\* await contract.setData("db_record_keys", ...) and the success status;
\* when the wallet rejects the transaction the run ends in the catch block.
migrateRecord_setKeys(c, rejected) ==
    /\ c \in DOMAIN ui
    /\ ui[c].step = "setKeys"
    /\ IF rejected
       THEN /\ ui' = [ui EXCEPT ![c].step = "idle"]
            /\ UNCHANGED mempool
       ELSE /\ setData(c, KeysKey, ToJsonBytes(ui[c].keys))
            /\ ui' = [ui EXCEPT ![c].step = "loadRecords",
                                ![c].migrated = @ \cup {ui[c].recordId}]
    /\ UNCHANGED <<storage, oracle, receipt, calls, now, cooldownAtSubmission,
                   lifecycleLog, data>>

\* list.sort((a, b) => b.timestamp - a.timestamp): the latest first, equal
\* timestamps in the order they had.
RECURSIVE SortByTimestampDesc(_)
InsertByTimestampDesc(r, list) ==
    LET before == { i \in 1 .. Len(list) : list[i].timestamp >= r.timestamp }
        n == Cardinality(before) IN
    SubSeq(list, 1, n) \o << r >> \o SubSeq(list, n + 1, Len(list))
SortByTimestampDesc(list) ==
    IF list = << >> THEN << >>
    ELSE InsertByTimestampDesc(list[Len(list)],
                               SortByTimestampDesc(SubSeq(list, 1, Len(list) - 1)))

\* The records of the keys whose bytes are not empty, in the order of keys.
RECURSIVE ReadRecords(_)
ReadRecords(keys) ==
    IF keys = << >> THEN << >>
    ELSE LET bytes == getData(RecordKey(Head(keys))) IN
         (IF Len(bytes) > 0 THEN << ParseJsonBytes(bytes) >> ELSE << >>)
            \o ReadRecords(Tail(keys))

\* loadRecords: from the mount effect, at the end of a migrateRecord run,
\* or on a refresh while no run is under way.  A record whose id is in the
\* key index is stored already (its client sent it before the index), so
\* the reads are taken at once.
loadRecords(c) ==
    /\ c \in DOMAIN ui
    /\ ui[c].step \in {"loadRecords", "idle"}
    /\ ui' = [ui EXCEPT ![c].records = SortByTimestampDesc(ReadRecords(ReadKeys)),
                        ![c].step = "idle"]
    /\ UNCHANGED <<storage, oracle, receipt, calls, now, cooldownAtSubmission,
                   lifecycleLog, data, mempool>>

UiNext ==
    \/ \E c \in Clients : mount(c)
    \/ \E c \in Clients, rejected \in BOOLEAN : migrateRecord_setRecord(c, rejected)
    \/ \E c \in Clients : migrateRecord_getKeys(c)
    \/ \E c \in Clients, rejected \in BOOLEAN : migrateRecord_setKeys(c, rejected)
    \/ \E c \in Clients : loadRecords(c)
    \/ \E c \in Clients : Mine(c)
    \/ Tick

UiSpec == Init /\ [][UiNext]_vars

----------------------------------------------------------------------------
(* Vocabulary of the properties.                                           *)

\* The step wrote nothing to the contract or the oracle and emitted nothing.
NoEffect == UNCHANGED <<storage, oracle, lifecycleLog>> /\ events' = << >>

\* requestId was returned by a requestDecryptionForBatch call.
Issued(requestId) == requestId < counterRequest

\* The event of an accepted callback.
IsCompletion(e, requestId) ==
    e.name = "DecryptionCompleted" /\ e.requestId = requestId

----------------------------------------------------------------------------
(* The oracle as a process of its own: for an issued request it decrypts   *)
(* the handles it was given and calls back with the cleartext and its      *)
(* proof.  Its deliveries are not counted against the exploration bound,   *)
(* and it keeps trying: weak fairness per request.                         *)

OracleDelivers(requestId) ==
    /\ Issued(requestId)
    /\ LET m == KmsResponse(requestedHandles[requestId][1]) IN
       /\ myCallbackOutcome(requestId, m.cleartexts, m.proof) = "ok"
       /\ myCallbackWrites(requestId, m.cleartexts)

FairNext ==
    \/ Next
    \/ \E r \in RequestIds : OracleDelivers(r)

FairSpec ==
    /\ Init /\ [][FairNext]_vars
    /\ \A r \in RequestIds : WF_vars(OracleDelivers(r))

----------------------------------------------------------------------------
(* C1: for every request id r, once a myCallback(r, ...) call has          *)
(* succeeded (which is the only way its context becomes processed), the    *)
(* context stays processed through every later step, and every later       *)
(* myCallback call with the same r, whoever sends it and whatever          *)
(* cleartext and proof it carries, reverts with ReplayAttempt and changes  *)
(* no state.                                                               *)
C1_ReplayRejected ==
    [][\A r \in RequestIds :
          /\ (~decryptionContexts[r].processed /\ decryptionContexts'[r].processed)
                => /\ called' = "myCallback" /\ outcome' = "ok"
                   /\ Len(events') = 1 /\ IsCompletion(events'[1], r)
          /\ decryptionContexts[r].processed
                => /\ decryptionContexts'[r].processed
                   /\ (called' = "myCallback" /\ r \in RequestArgs) =>
                         \A s \in Addresses, m \in Responses :
                            myCallback(s, r, m.cleartexts, m.proof)
                               => outcome' = "ReplayAttempt" /\ NoEffect]_vars

\* A callback was rejected as a replay of a processed request.
C1_Witness ==
    /\ called = "myCallback" /\ outcome = "ReplayAttempt"
    /\ \E r \in RequestIds : decryptionContexts[r].processed

(* C2: in every reachable state, a principal that is not in the provider   *)
(* set (the owner included) gets NotProvider from submitEncryptedData and  *)
(* from requestDecryptionForBatch, for every argument, and the call        *)
(* changes no state.                                                       *)
C2_NonProviderRejected ==
    [][\A p \in Addresses : ~isProvider[p] =>
          /\ called' = "submitEncryptedData" =>
                \A h \in Handles : submitEncryptedData(p, h)
                   => outcome' = "NotProvider" /\ NoEffect
          /\ called' = "requestDecryptionForBatch" =>
                \A b \in BatchArgs : requestDecryptionForBatch(p, b)
                   => outcome' = "NotProvider" /\ NoEffect]_vars

\* A submission or a request was turned away while the owner is no provider.
C2_Witness ==
    /\ outcome = "NotProvider"
    /\ called \in {"submitEncryptedData", "requestDecryptionForBatch"}
    /\ ~isProvider[owner]

(* C3: each owner-only function, called by anyone but the current owner,   *)
(* reverts with NotOwner for every argument and changes no state: every    *)
(* step either is a NotOwner rejection that wrote and emitted nothing, or  *)
(* is not a call of an owner-only function by a non-owner.                 *)
C3_NonOwnerRejected ==
    [][\/ outcome' = "NotOwner" /\ NoEffect
       \/ \A s \in Addresses : s # owner =>
             /\ called' = "transferOwnership" =>
                   \A a \in NewOwners : ~transferOwnership(s, a)
             /\ called' = "addProvider" =>
                   \A a \in Addresses : ~addProvider(s, a)
             /\ called' = "removeProvider" =>
                   \A a \in Addresses : ~removeProvider(s, a)
             /\ called' = "pause" => ~pause(s)
             /\ called' = "unpause" => ~unpause(s)
             /\ called' = "setCooldownSeconds" =>
                   \A c \in CooldownChoices : ~setCooldownSeconds(s, c)
             /\ called' = "openNewBatch" => ~openNewBatch(s)
             /\ called' = "closeBatch" =>
                   \A b \in BatchArgs : ~closeBatch(s, b)]_vars

\* The deployer, after handing ownership over, was turned away.
C3_Witness ==
    /\ outcome = "NotOwner"
    /\ owner # Deployer

\* block.timestamp >= last + cooldownSeconds, over the integers.
CooldownElapsed(last) == now >= last + cooldownSeconds

\* The recomputed hash of the slot a context points to.
CurrentHash(requestId) ==
    _hashCiphertexts(<< toBytes32(encryptedData[decryptionContexts[requestId].batchId]) >>)

\* What the oracle answers for a request: the decryption of the slot's handle.
HonestResponse(requestId) ==
    KmsResponse(encryptedData[decryptionContexts[requestId].batchId])

(* C4 (premise): the slot of an issued request's batch still hashes to the *)
(* stored stateHash.  It holds in every reachable state, so no submission  *)
(* ever overwrites the slot of a batch between its request and its         *)
(* callback.                                                               *)
IssuedSnapshotsFresh ==
    \A r \in RequestIds : Issued(r) => CurrentHash(r) = decryptionContexts[r].stateHash

(* C5: for a provider p whose last accepted submission was at time t, with *)
(* cooldownSeconds as it was at that submission, the contract not paused   *)
(* and the current batch open, a submission by p now reverts with          *)
(* CooldownActive when now < t + cooldownSeconds and is accepted when      *)
(* now >= t + cooldownSeconds.                                             *)
C5_CooldownWindow ==
    \A p \in Addresses :
       ( /\ isProvider[p] /\ ~paused /\ ~batchClosed[currentBatchId]
         /\ cooldownAtSubmission[p] # -1
         /\ cooldownSeconds = cooldownAtSubmission[p] )
       => submitEncryptedDataOutcome(p) =
             IF now < lastSubmissionTime[p] + cooldownSeconds
             THEN "CooldownActive" ELSE "ok"

\* A provider that submitted under the current cooldown was throttled.
C5_Witness ==
    /\ called = "submitEncryptedData" /\ outcome = "CooldownActive"
    /\ \E p \in Addresses :
          /\ isProvider[p] /\ ~paused /\ ~batchClosed[currentBatchId]
          /\ cooldownSeconds = cooldownAtSubmission[p]
          /\ cooldownSeconds > 0
          /\ now < lastSubmissionTime[p] + cooldownSeconds

(* C6 as stated: once a batch is closed it stays closed, and every later   *)
(* closeBatch on it, whoever calls, reverts with InvalidBatchId.           *)
C6_AsStated ==
    [][\A b \in BatchIds : batchClosed[b] =>
          /\ batchClosed'[b]
          /\ called' = "closeBatch" =>
                \A s \in Addresses : closeBatch(s, b) => outcome' = "InvalidBatchId"]_vars

(* C6 amended: a batch becomes closed only by an accepted closeBatch; once *)
(* closed it stays closed through every step, and every later closeBatch   *)
(* on it reverts and changes nothing: with InvalidBatchId when the owner   *)
(* calls, with NotOwner when anyone else does.                             *)
C6_ClosedForever ==
    [][\A b \in BatchIds :
          /\ (~batchClosed[b] /\ batchClosed'[b])
                => /\ called' = "closeBatch" /\ outcome' = "ok"
                   /\ events' = << [name |-> "BatchClosed", batchId |-> b] >>
          /\ batchClosed[b]
                => /\ batchClosed'[b]
                   /\ called' = "closeBatch" =>
                         \A s \in Addresses : closeBatch(s, b) =>
                            /\ NoEffect
                            /\ outcome' = IF s = owner THEN "InvalidBatchId"
                                          ELSE "NotOwner"]_vars

\* The owner's closeBatch was rejected while every batch opened so far is closed.
C6_Witness ==
    /\ called = "closeBatch" /\ outcome = "InvalidBatchId"
    /\ \A b \in 1 .. currentBatchId : batchClosed[b]

(* C7: while the current batch is closed, a submission by a provider whose *)
(* cooldown has elapsed, with the contract not paused, reverts with        *)
(* BatchClosedOrInvalid and changes neither the slots nor the last-        *)
(* submission times; no submission at all is accepted, and the current     *)
(* batch is open again only through an accepted openNewBatch.              *)
C7_ClosedBatchRejectsSubmit ==
    [][batchClosed[currentBatchId] =>
          /\ called' = "submitEncryptedData" =>
                /\ outcome' # "ok"
                /\ \A p \in Addresses, h \in Handles :
                      ( /\ isProvider[p] /\ ~paused
                        /\ CooldownElapsed(lastSubmissionTime[p])
                        /\ submitEncryptedData(p, h) )
                      => /\ outcome' = "BatchClosedOrInvalid"
                         /\ encryptedData' = encryptedData
                         /\ lastSubmissionTime' = lastSubmissionTime
                         /\ NoEffect
          /\ ~batchClosed'[currentBatchId']
                => called' = "openNewBatch" /\ outcome' = "ok"]_vars

\* A submission was rejected because the current batch is closed.
C7_Witness ==
    /\ called = "submitEncryptedData" /\ outcome = "BatchClosedOrInvalid"
    /\ batchClosed[currentBatchId]

(* C8: a requestDecryptionForBatch by a provider whose decryption cooldown *)
(* has elapsed, with the contract not paused, reverts with InvalidBatchId  *)
(* and creates no request when the batch id is 0, exceeds currentBatchId   *)
(* or names an open batch; every stored request names an existing, closed  *)
(* batch.                                                                  *)
C8_RequestNeedsClosedBatch ==
    [][/\ called' = "requestDecryptionForBatch" =>
             \A p \in Addresses, b \in BatchArgs :
                ( /\ isProvider[p] /\ ~paused
                  /\ CooldownElapsed(lastDecryptionRequestTime[p])
                  /\ (b = 0 \/ b > currentBatchId \/ ~batchClosed[b])
                  /\ requestDecryptionForBatch(p, b) )
                => outcome' = "InvalidBatchId" /\ NoEffect
       /\ \A r \in RequestIds : r < counterRequest' =>
             /\ decryptionContexts'[r].batchId \in 1 .. currentBatchId'
             /\ batchClosed'[decryptionContexts'[r].batchId]]_vars

\* A provider's request was rejected while the current batch is still open.
C8_Witness ==
    /\ called = "requestDecryptionForBatch" /\ outcome = "InvalidBatchId"
    /\ ~batchClosed[currentBatchId]
    /\ counterRequest = 0

(* C9: each step of the scenario is accepted whenever its preconditions    *)
(* hold (a provider's submission into the open current batch, the owner's  *)
(* closeBatch of an open batch, a provider's request for a closed batch,   *)
(* the oracle's answer to an issued, unprocessed request), and an accepted *)
(* callback leaves the request processed and emits exactly one completion  *)
(* event carrying the request id, its batch and the plaintext of the value *)
(* submitted to that batch.                                                *)
C9_SubmitCloseRequestDecrypt ==
    /\ \A p \in Addresses :
          ( isProvider[p] /\ ~paused /\ CooldownElapsed(lastSubmissionTime[p])
            /\ ~batchClosed[currentBatchId] )
          => submitEncryptedDataOutcome(p) = "ok"
    /\ \A b \in 1 .. currentBatchId :
          ~batchClosed[b] => closeBatchOutcome(owner, b) = "ok"
    /\ \A p \in Addresses, b \in 1 .. currentBatchId :
          ( isProvider[p] /\ ~paused /\ CooldownElapsed(lastDecryptionRequestTime[p])
            /\ batchClosed[b] )
          => requestDecryptionForBatchOutcome(p, b) = "ok"
    /\ \A r \in RequestIds :
          ( Issued(r) /\ ~decryptionContexts[r].processed )
          => myCallbackOutcome(r, HonestResponse(r).cleartexts,
                               HonestResponse(r).proof) = "ok"
    /\ ( called = "myCallback" /\ outcome = "ok" )
          => /\ Len(events) = 1
             /\ events[1].name = "DecryptionCompleted"
             /\ Issued(events[1].requestId)
             /\ decryptionContexts[events[1].requestId].processed
             /\ events[1].batchId = decryptionContexts[events[1].requestId].batchId
             /\ events[1].decryptedValue = Plaintext(encryptedData[events[1].batchId])

\* The scenario itself: from construction, five accepted calls (addProvider,
\* submit of handle 1, closeBatch(1), request, callback) and nothing else.
C9_Witness ==
    /\ calls = 5
    /\ owner = Deployer /\ ~paused /\ cooldownSeconds = DefaultCooldown
    /\ isProvider["bob"] /\ ~isProvider[Deployer]
    /\ currentBatchId = 1 /\ batchClosed[1]
    /\ encryptedData[1] = 1
    /\ lastSubmissionTime["bob"] > 0 /\ lastDecryptionRequestTime["bob"] > 0
    /\ decryptionContexts[0] =
          [batchId |-> 1, stateHash |-> _hashCiphertexts(<<1>>), processed |-> TRUE]
    /\ called = "myCallback" /\ outcome = "ok"
    /\ events = << [name |-> "DecryptionCompleted", requestId |-> 0, batchId |-> 1,
                    decryptedValue |-> Plaintext(1)] >>

(* C10: a call that reverts, with whatever error, leaves the whole         *)
(* contract state as it was (owner, providers, paused, cooldownSeconds,    *)
(* both timestamp maps, currentBatchId, closed batches, slots, decryption  *)
(* contexts), issues no oracle request and emits no event.                 *)
C10_RevertChangesNothing ==
    [][outcome' # "ok" => NoEffect]_vars

\* A callback with a bad proof for an issued, unprocessed request was rejected.
C10_Witness ==
    /\ called = "myCallback" /\ outcome = "InvalidProof"
    /\ \E r \in RequestIds : Issued(r) /\ ~decryptionContexts[r].processed

\* The proof is the oracle's signature over the request's handles and these cleartexts.
ValidProof(requestId, cleartexts, proof) ==
    proof = KmsSign(requestedHandles[requestId], cleartexts)

(* C11: a myCallback for an issued, unprocessed request whose proof is not *)
(* the oracle's signature over the request's handles and the cleartexts    *)
(* reverts with InvalidProof, writes nothing (the request stays            *)
(* unprocessed), emits nothing, and in the state it leaves the oracle's    *)
(* own answer for that request is still accepted.                          *)
C11_ProofBeforeMutation ==
    [][called' = "myCallback" =>
          \A s \in Addresses, r \in RequestArgs, m \in Responses :
             ( /\ Issued(r) /\ ~decryptionContexts[r].processed
               /\ ~ValidProof(r, m.cleartexts, m.proof)
               /\ myCallback(s, r, m.cleartexts, m.proof) )
             => /\ outcome' = "InvalidProof"
                /\ NoEffect
                /\ ~decryptionContexts'[r].processed
                /\ (myCallbackOutcome(r, HonestResponse(r).cleartexts,
                                      HonestResponse(r).proof) = "ok")']_vars

\* The only issued request was answered with a bad proof, is still
\* unprocessed, and its valid answer would be accepted now.
C11_Witness ==
    /\ called = "myCallback" /\ outcome = "InvalidProof"
    /\ counterRequest = 1
    /\ ~decryptionContexts[0].processed
    /\ ValidProof(0, HonestResponse(0).cleartexts, HonestResponse(0).proof)
    /\ myCallbackOutcome(0, HonestResponse(0).cleartexts, HonestResponse(0).proof) = "ok"

(* C12 as stated: a myCallback with a request id that was never issued (no *)
(* stored context) reverts with ReplayAttempt, whatever the cleartexts and *)
(* the proof, and writes and emits nothing.                                *)
C12_AsStated ==
    [][called' = "myCallback" =>
          \A s \in Addresses, r \in RequestArgs, m \in Responses :
             ( ~Issued(r) /\ myCallback(s, r, m.cleartexts, m.proof) )
             => outcome' = "ReplayAttempt" /\ NoEffect]_vars

\* What the code does with a never-issued id: the replay check passes on
\* the zero context and the hash check rejects it.
C12_UnknownIdMismatch ==
    [][called' = "myCallback" =>
          \A s \in Addresses, r \in RequestArgs, m \in Responses :
             ( ~Issued(r) /\ myCallback(s, r, m.cleartexts, m.proof) )
             => outcome' = "StateMismatch" /\ NoEffect]_vars

(* C13: paused changes only in an accepted pause (FALSE to TRUE) or an     *)
(* accepted unpause (TRUE to FALSE).  The owner's pause is accepted        *)
(* exactly when not paused and reverts with PausedContract, writing        *)
(* nothing, when paused; the owner's unpause is accepted exactly when      *)
(* paused and reverts with PausedContract, writing nothing, when not       *)
(* paused.  (The contract has one error, PausedContract, for both          *)
(* misuses.)                                                               *)
C13_PauseStateMachine ==
    [][/\ paused' # paused =>
             /\ outcome' = "ok"
             /\ \/ called' = "pause" /\ ~paused /\ paused'
                     /\ events' = << [name |-> "Paused", account |-> owner] >>
                \/ called' = "unpause" /\ paused /\ ~paused'
                     /\ events' = << [name |-> "Unpaused", account |-> owner] >>
       /\ (called' = "pause" /\ pause(owner)) =>
             IF paused THEN outcome' = "PausedContract" /\ NoEffect
             ELSE outcome' = "ok" /\ paused'
       /\ (called' = "unpause" /\ unpause(owner)) =>
             IF paused THEN outcome' = "ok" /\ ~paused'
             ELSE outcome' = "PausedContract" /\ NoEffect]_vars

\* The owner's pause was rejected because the contract is already paused.
C13_Witness ==
    called = "pause" /\ outcome = "PausedContract" /\ paused

\* Everything of the contract and the oracle but the provider set.
AllButProviders ==
    <<owner, paused, cooldownSeconds, lastSubmissionTime, lastDecryptionRequestTime,
      currentBatchId, batchClosed, decryptionContexts, encryptedData, oracle>>

\* The step is a call (not the passing of time) that is visible in the state.
CallStep == now' = now /\ vars' # vars

(* C14: addProvider(a) and removeProvider(a) by the owner are always       *)
(* accepted and touch nothing but the provider set; addProvider of a       *)
(* provider and removeProvider of a non-provider write nothing and emit    *)
(* nothing, the other calls set the flag and emit exactly one              *)
(* ProviderAdded / ProviderRemoved for a; and a call emits such an event   *)
(* exactly when it changes the provider set.                               *)
C14_ProviderIdempotent ==
    [][/\ called' = "addProvider" =>
             \A a \in Addresses : addProvider(owner, a) =>
                /\ outcome' = "ok"
                /\ UNCHANGED AllButProviders
                /\ isProvider' = [isProvider EXCEPT ![a] = TRUE]
                /\ events' = IF isProvider[a] THEN << >>
                             ELSE << [name |-> "ProviderAdded", provider |-> a] >>
       /\ called' = "removeProvider" =>
             \A a \in Addresses : removeProvider(owner, a) =>
                /\ outcome' = "ok"
                /\ UNCHANGED AllButProviders
                /\ isProvider' = [isProvider EXCEPT ![a] = FALSE]
                /\ events' = IF isProvider[a]
                             THEN << [name |-> "ProviderRemoved", provider |-> a] >>
                             ELSE << >>
       /\ CallStep =>
             ( isProvider' # isProvider
               <=> \E i \in 1 .. Len(events') :
                      events'[i].name \in {"ProviderAdded", "ProviderRemoved"} )]_vars

\* The owner re-added a provider: accepted, nothing emitted.
C14_Witness ==
    /\ called = "addProvider" /\ outcome = "ok" /\ events = << >>
    /\ \E a \in Addresses : isProvider[a]

(* C15: while paused, every submitEncryptedData and every                  *)
(* requestDecryptionForBatch step is rejected and writes and emits         *)
(* nothing, whoever calls; a provider's call, cooldown elapsed or not, is  *)
(* rejected with PausedContract.  In the state an accepted unpause leaves, *)
(* a provider whose cooldown has elapsed is accepted again: its submit     *)
(* when the current batch is open, its request for every closed batch.     *)
C15_PausedBlocksProviders ==
    [][/\ (paused /\ called' \in {"submitEncryptedData", "requestDecryptionForBatch"}) =>
             /\ outcome' # "ok" /\ NoEffect
             /\ \A p \in Addresses : isProvider[p] =>
                   /\ \A h \in Handles : submitEncryptedData(p, h)
                         => outcome' = "PausedContract"
                   /\ \A b \in BatchArgs : requestDecryptionForBatch(p, b)
                         => outcome' = "PausedContract"
       /\ (called' = "unpause" /\ outcome' = "ok" /\ paused) =>
             \A p \in Addresses : isProvider'[p] =>
                /\ ( CooldownElapsed(lastSubmissionTime[p])
                     /\ ~batchClosed[currentBatchId] )'
                      => (submitEncryptedDataOutcome(p) = "ok")'
                /\ \A b \in 1 .. currentBatchId :
                      ( CooldownElapsed(lastDecryptionRequestTime[p])
                        /\ batchClosed[b] )'
                      => (requestDecryptionForBatchOutcome(p, b) = "ok")']_vars

\* A provider's submit was rejected because the contract is paused.
C15_Witness ==
    /\ called = "submitEncryptedData" /\ outcome = "PausedContract" /\ paused
    /\ \E p \in Addresses : isProvider[p] /\ CooldownElapsed(lastSubmissionTime[p])

\* The outcomes of the eight owner-only functions for caller a.
OwnerOnlyOutcomes(a) ==
    { transferOwnershipOutcome(a), addProviderOutcome(a), removeProviderOutcome(a),
      pauseOutcome(a), unpauseOutcome(a), setCooldownSecondsOutcome(a),
      openNewBatchOutcome(a) }
    \cup { closeBatchOutcome(a, b) : b \in BatchArgs }

(* C16: in every state exactly one address passes onlyOwner; owner changes *)
(* only in an accepted transferOwnership, which logs the old and the new   *)
(* owner; the owner's transferOwnership(n) is always accepted, makes n the *)
(* owner and leaves the provider set alone, and when n differs from the    *)
(* old owner, afterwards no owner-only function answers NotOwner to n and  *)
(* every owner-only function answers NotOwner to the old owner.            *)
C16_SingleOwner ==
    [][/\ Cardinality({a \in NewOwners : onlyOwner(a)}) = 1
       /\ Cardinality({a \in NewOwners : onlyOwner(a)})' = 1
       /\ owner' # owner =>
             /\ called' = "transferOwnership" /\ outcome' = "ok"
             /\ events' = << [name |-> "OwnershipTransferred", previousOwner |-> owner,
                              newOwner |-> owner'] >>
       /\ called' = "transferOwnership" =>
             \A old \in Addresses, n \in NewOwners :
                ( old = owner /\ transferOwnership(old, n) ) =>
                   /\ outcome' = "ok"
                   /\ owner' = n
                   /\ isProvider' = isProvider
                   /\ n # old =>
                         /\ ("NotOwner" \notin OwnerOnlyOutcomes(n))'
                         /\ (OwnerOnlyOutcomes(old) = {"NotOwner"})']_vars

\* Ownership went to another address, which has acted as owner since.
C16_Witness ==
    /\ owner # Deployer
    /\ called \in {"addProvider", "pause", "openNewBatch", "closeBatch"}
    /\ outcome = "ok" /\ events # << >>

(* C17: every closeBatch(b) step by the owner, paused or not, is accepted  *)
(* when 1 <= b <= currentBatchId and b is not closed (it closes b, only b, *)
(* and emits BatchClosed(b)) and otherwise reverts with InvalidBatchId,    *)
(* writing nothing.                                                        *)
C17_CloseBatchIff ==
    [][called' = "closeBatch" =>
          \A b \in BatchArgs : closeBatch(owner, b) =>
             IF b \in 1 .. currentBatchId /\ ~batchClosed[b]
             THEN /\ outcome' = "ok"
                  /\ batchClosed' = [batchClosed EXCEPT ![b] = TRUE]
                  /\ events' = << [name |-> "BatchClosed", batchId |-> b] >>
             ELSE outcome' = "InvalidBatchId" /\ NoEffect]_vars

\* While paused, the owner closed batch 1, an unclosed batch older than the
\* current one.
C17_Witness ==
    /\ called = "closeBatch" /\ outcome = "ok"
    /\ events = << [name |-> "BatchClosed", batchId |-> 1] >>
    /\ currentBatchId = 2 /\ ~batchClosed[2]
    /\ paused

\* The batches opened so far that are not closed.
OpenBatches == {b \in 1 .. currentBatchId : ~batchClosed[b]}

(* C18 as stated: at most one batch among 1..currentBatchId is open, and   *)
(* an open batch is the current one.                                       *)
C18_AsStated ==
    \A b \in OpenBatches : b = currentBatchId

(* C18 amended: any number of the batches 1..currentBatchId may be open,   *)
(* but at most one of them, the current one, accepts submissions: an       *)
(* accepted submit is taken while the current batch is open and is logged  *)
(* for it, and the slot of an open batch that is not current never         *)
(* changes.                                                                *)
C18_OnlyCurrentAcceptsSubmissions ==
    [][/\ (called' = "submitEncryptedData" /\ outcome' = "ok") =>
             /\ currentBatchId \in OpenBatches
             /\ Len(events') = 1 /\ events'[1].batchId = currentBatchId
       /\ \A b \in OpenBatches :
             b # currentBatchId => encryptedData'[b] = encryptedData[b]]_vars

\* Batches 1 and 2 are both open; a submission went into batch 2 only.
C18_Witness ==
    /\ called = "submitEncryptedData" /\ outcome = "ok"
    /\ currentBatchId = 2 /\ OpenBatches = {1, 2}
    /\ encryptedData[1] = 0 /\ encryptedData[2] # 0

\* Everything of the contract and the oracle but currentBatchId.
AllButCurrentBatchId ==
    <<owner, isProvider, paused, cooldownSeconds, lastSubmissionTime,
      lastDecryptionRequestTime, batchClosed, decryptionContexts, encryptedData, oracle>>

(* C19: currentBatchId is 1 after construction; in every step it never    *)
(* decreases and changes only in an accepted openNewBatch, by exactly 1,   *)
(* with BatchOpened for the new id; every openNewBatch step by the owner   *)
(* (paused or not, previous batch open or not) is accepted and touches     *)
(* nothing but currentBatchId; and after every step every closed batch     *)
(* and every written slot has its id in 1..currentBatchId.                 *)
C19_BatchCounter ==
    /\ currentBatchId = 1
    /\ [][/\ currentBatchId' >= currentBatchId
          /\ currentBatchId' # currentBatchId =>
                /\ called' = "openNewBatch" /\ outcome' = "ok"
                /\ currentBatchId' = currentBatchId + 1
                /\ events' = << [name |-> "BatchOpened", batchId |-> currentBatchId + 1] >>
          /\ (called' = "openNewBatch" /\ openNewBatch(owner)) =>
                /\ outcome' = "ok"
                /\ currentBatchId' = currentBatchId + 1
                /\ UNCHANGED AllButCurrentBatchId
          /\ \A b \in BatchIds :
                (batchClosed'[b] \/ encryptedData'[b] # 0)
                   => b \in 1 .. currentBatchId']_vars

\* The owner opened batch 2 while paused and with batch 1 still open.
C19_Witness ==
    /\ called = "openNewBatch" /\ outcome = "ok"
    /\ currentBatchId = 2 /\ paused /\ ~batchClosed[1]

(* C20: in every step, the slot of a batch b changes only in an accepted   *)
(* submitEncryptedData taken while b is the current batch and not closed,  *)
(* to the value that step logs for b; in particular the slot of a closed   *)
(* batch and the slot of a batch below currentBatchId do not change in any *)
(* step.                                                                   *)
C20_SlotWrittenOnlyBySubmit ==
    [][\A b \in BatchIds :
          /\ encryptedData'[b] # encryptedData[b] =>
                /\ called' = "submitEncryptedData" /\ outcome' = "ok"
                /\ b = currentBatchId /\ ~batchClosed[b]
                /\ Len(events') = 1
                /\ events'[1].name = "DataSubmitted"
                /\ events'[1].batchId = b
                /\ events'[1].encryptedValue = encryptedData'[b]
          /\ (batchClosed[b] \/ b < currentBatchId)
                => encryptedData'[b] = encryptedData[b]]_vars

\* Batch 1 was written and closed; a later submission went into batch 2 and
\* left the slot of batch 1 as it was.
C20_Witness ==
    /\ called = "submitEncryptedData" /\ outcome = "ok"
    /\ currentBatchId = 2 /\ batchClosed[1]
    /\ encryptedData[1] = 1 /\ encryptedData[2] = 2

(* C21: per request id, the stored context only goes from absent to        *)
(* requested to processed.  A context that was never issued is the zero    *)
(* context; a step changes the context of r only by creating it (r is the  *)
(* id the oracle hands out in an accepted requestDecryptionForBatch, the   *)
(* new context names the requested batch with the hash of its slot and is  *)
(* unprocessed) or by processing it (an accepted myCallback for r, from    *)
(* unprocessed to processed); an issued id stays issued, and its batchId   *)
(* and stateHash are the same after every step.                            *)
C21_ContextLifecycle ==
    [][\A r \in RequestIds :
          /\ ~Issued(r) => decryptionContexts[r] = ZeroContext
          /\ Issued(r) =>
                /\ r < counterRequest'
                /\ decryptionContexts'[r].batchId = decryptionContexts[r].batchId
                /\ decryptionContexts'[r].stateHash = decryptionContexts[r].stateHash
                /\ decryptionContexts[r].processed => decryptionContexts'[r].processed
          /\ decryptionContexts'[r] # decryptionContexts[r] =>
                \/ /\ ~Issued(r) /\ r = counterRequest /\ counterRequest' = r + 1
                   /\ called' = "requestDecryptionForBatch" /\ outcome' = "ok"
                   /\ Len(events') = 1
                   /\ events'[1].name = "DecryptionRequested"
                   /\ events'[1].requestId = r
                   /\ decryptionContexts'[r] =
                         [batchId |-> events'[1].batchId,
                          stateHash |-> _hashCiphertexts(
                              << toBytes32(encryptedData[events'[1].batchId]) >>),
                          processed |-> FALSE]
                \/ /\ Issued(r) /\ ~decryptionContexts[r].processed
                   /\ called' = "myCallback" /\ outcome' = "ok"
                   /\ Len(events') = 1 /\ IsCompletion(events'[1], r)
                   /\ decryptionContexts'[r] =
                         [decryptionContexts[r] EXCEPT !.processed = TRUE]]_vars

\* Two requests were issued; the first has been processed, the second is
\* still pending.
C21_Witness ==
    /\ counterRequest = 2
    /\ decryptionContexts[0].processed
    /\ ~decryptionContexts[1].processed
    /\ decryptionContexts[1].batchId # 0

\* The administration functions of the claim and the state they administer.
AdminCalls ==
    {"transferOwnership", "addProvider", "removeProvider", "pause", "unpause",
     "setCooldownSeconds"}

AdminState == <<owner, isProvider, paused, cooldownSeconds>>

\* The step is an accepted administration call that changed what it administers.
AdminChange ==
    called' \in AdminCalls /\ outcome' = "ok" /\ AdminState' # AdminState

\* The values a record carries besides its name.
ValueFields(e) == DOMAIN e \ {"name"}

(* C22 as stated: every accepted, state-changing administration call emits *)
(* exactly one record that carries the old and the new value of what it    *)
(* changed (so at least two values), and a rejected call emits nothing.    *)
C22_AsStated ==
    [][called' \in AdminCalls =>
          /\ outcome' # "ok" => events' = << >>
          /\ AdminChange =>
                /\ Len(events') = 1
                /\ Cardinality(ValueFields(events'[1])) >= 2]_vars

(* C22 amended: every accepted, state-changing administration call emits   *)
(* exactly one record, from which the change can be read: the old and the  *)
(* new owner, the old and the new cooldown, the provider that was added    *)
(* or removed, or for Paused / Unpaused the caller only (the flag's old    *)
(* and new value follow from the record's kind).  A rejected call emits    *)
(* nothing, and what is administered changes in no other step.             *)
C22_AdminRecords ==
    [][/\ AdminState' # AdminState => called' \in AdminCalls /\ outcome' = "ok"
       /\ called' \in AdminCalls =>
             /\ outcome' # "ok" => events' = << >>
             /\ AdminChange =>
                   /\ Len(events') = 1
                   /\ LET e == events'[1] IN
                      CASE called' = "transferOwnership" ->
                              /\ e.name = "OwnershipTransferred"
                              /\ e.previousOwner = owner /\ e.newOwner = owner'
                        [] called' = "setCooldownSeconds" ->
                              /\ e.name = "CooldownSecondsSet"
                              /\ e.oldCooldownSeconds = cooldownSeconds
                              /\ e.newCooldownSeconds = cooldownSeconds'
                        [] called' = "addProvider" ->
                              /\ e.name = "ProviderAdded" /\ ValueFields(e) = {"provider"}
                              /\ ~isProvider[e.provider]
                              /\ isProvider' = [isProvider EXCEPT ![e.provider] = TRUE]
                        [] called' = "removeProvider" ->
                              /\ e.name = "ProviderRemoved" /\ ValueFields(e) = {"provider"}
                              /\ isProvider[e.provider]
                              /\ isProvider' = [isProvider EXCEPT ![e.provider] = FALSE]
                        [] called' = "pause" ->
                              /\ e.name = "Paused" /\ ValueFields(e) = {"account"}
                              /\ e.account = owner /\ ~paused /\ paused'
                        [] called' = "unpause" ->
                              /\ e.name = "Unpaused" /\ ValueFields(e) = {"account"}
                              /\ e.account = owner /\ paused /\ ~paused']_vars

\* The cooldown was changed from its default and the record says so.
C22_Witness ==
    /\ called = "setCooldownSeconds" /\ outcome = "ok"
    /\ events = << [name |-> "CooldownSecondsSet",
                    oldCooldownSeconds |-> DefaultCooldown,
                    newCooldownSeconds |-> cooldownSeconds] >>
    /\ cooldownSeconds # DefaultCooldown

(* C23: an accepted submitEncryptedData(v) by p sets lastSubmissionTime[p] *)
(* to the block time and nobody else's, sets the slot of currentBatchId to *)
(* v whatever it held and no other slot, emits exactly                     *)
(* DataSubmitted(p, currentBatchId, v), and leaves the decryption-request  *)
(* times, the closed set, currentBatchId, owner, providers, paused,        *)
(* cooldownSeconds, the contexts and the oracle as they were.              *)
C23_SubmitEffect ==
    [][(called' = "submitEncryptedData" /\ outcome' = "ok") =>
          \A p \in Addresses, v \in Handles : submitEncryptedData(p, v) =>
             /\ lastSubmissionTime' = [lastSubmissionTime EXCEPT ![p] = now]
             /\ encryptedData' = [encryptedData EXCEPT ![currentBatchId] = v]
             /\ events' = << [name |-> "DataSubmitted", provider |-> p,
                              batchId |-> currentBatchId, encryptedValue |-> v] >>
             /\ UNCHANGED <<owner, isProvider, paused, cooldownSeconds,
                            lastDecryptionRequestTime, currentBatchId, batchClosed,
                            decryptionContexts, oracle>>]_vars

\* The last writer won: the slot holds the value of the latest submission,
\* made by a provider other than the one who wrote the slot first.
C23_Witness ==
    /\ called = "submitEncryptedData" /\ outcome = "ok"
    /\ encryptedData[currentBatchId] = events[1].encryptedValue
    /\ \E q \in Addresses :
          /\ q # events[1].provider
          /\ lastSubmissionTime[q] > 0
          /\ lastSubmissionTime[events[1].provider] >= lastSubmissionTime[q]
    /\ currentBatchId = 1

(* C24 as stated: a requestDecryptionForBatch by a provider p, not paused, *)
(* reverts with CooldownActive exactly when                                *)
(* now < lastDecryptionRequestTime[p] + cooldownSeconds; a submit by p     *)
(* leaves lastDecryptionRequestTime alone but for nobody, a request by p   *)
(* leaves lastSubmissionTime alone, and neither changes a timestamp of     *)
(* another principal.                                                      *)
C24_AsStated ==
    [][/\ called' = "requestDecryptionForBatch" =>
             \A p \in Addresses, b \in BatchArgs :
                ( isProvider[p] /\ ~paused /\ requestDecryptionForBatch(p, b) ) =>
                   /\ outcome' = "CooldownActive"
                         <=> now < lastDecryptionRequestTime[p] + cooldownSeconds
                   /\ lastSubmissionTime' = lastSubmissionTime
                   /\ \A q \in Addresses \ {p} :
                         lastDecryptionRequestTime'[q] = lastDecryptionRequestTime[q]
       /\ called' = "submitEncryptedData" =>
             \A p \in Addresses, v \in Handles : submitEncryptedData(p, v) =>
                /\ lastDecryptionRequestTime' = lastDecryptionRequestTime
                /\ \A q \in Addresses \ {p} :
                      lastSubmissionTime'[q] = lastSubmissionTime[q]]_vars

\* What the code does: the same, except that the checked addition of line
\* 134 panics when lastDecryptionRequestTime[p] + cooldownSeconds does not
\* fit in a uint256.
C24_CooldownOrPanic ==
    [][/\ called' = "requestDecryptionForBatch" =>
             \A p \in Addresses, b \in BatchArgs :
                ( isProvider[p] /\ ~paused /\ requestDecryptionForBatch(p, b) ) =>
                   /\ outcome' \in {"CooldownActive", "Panic"}
                         <=> now < lastDecryptionRequestTime[p] + cooldownSeconds
                   /\ outcome' = "Panic"
                         <=> lastDecryptionRequestTime[p] + cooldownSeconds > UintMax
                   /\ lastSubmissionTime' = lastSubmissionTime
                   /\ \A q \in Addresses \ {p} :
                         lastDecryptionRequestTime'[q] = lastDecryptionRequestTime[q]
       /\ called' = "submitEncryptedData" =>
             \A p \in Addresses, v \in Handles : submitEncryptedData(p, v) =>
                /\ lastDecryptionRequestTime' = lastDecryptionRequestTime
                /\ \A q \in Addresses \ {p} :
                      lastSubmissionTime'[q] = lastSubmissionTime[q]]_vars

(* C25: an accepted requestDecryptionForBatch(b) stores, under the id the  *)
(* oracle returns, the context {batchId = b, stateHash = keccak256 of      *)
(* (the handle in b's slot, this contract's address), processed = false},  *)
(* touching no other context; it hands the oracle that handle, emits       *)
(* exactly DecryptionRequested(id, b), and leaves every slot, the closed   *)
(* set and currentBatchId as they were.                                    *)
C25_RequestEffect ==
    [][(called' = "requestDecryptionForBatch" /\ outcome' = "ok") =>
          \A p \in Addresses, b \in BatchArgs : requestDecryptionForBatch(p, b) =>
             LET id == counterRequest IN
             /\ counterRequest' = id + 1
             /\ requestedHandles' = [requestedHandles EXCEPT ![id] = << encryptedData[b] >>]
             /\ decryptionContexts' = [decryptionContexts EXCEPT ![id] =
                   [batchId |-> b,
                    stateHash |-> <<"keccak256", << encryptedData[b] >>, This>>,
                    processed |-> FALSE]]
             /\ events' = << [name |-> "DecryptionRequested", requestId |-> id,
                              batchId |-> b] >>
             /\ UNCHANGED <<encryptedData, batchClosed, currentBatchId>>]_vars

\* A second request was accepted and the first one's context is still there.
C25_Witness ==
    /\ called = "requestDecryptionForBatch" /\ outcome = "ok"
    /\ counterRequest = 2
    /\ decryptionContexts[0].batchId # 0
    /\ decryptionContexts[1] =
          [batchId |-> events[1].batchId,
           stateHash |-> <<"keccak256", << encryptedData[events[1].batchId] >>, This>>,
           processed |-> FALSE]

\* The events of kind name that the step emits.
Emitted(name) ==
    { events'[i] : i \in { j \in 1 .. Len(events') : events'[j].name = name } }

(* C26: over the events of a whole behaviour (lifecycleLog holds the       *)
(* BatchClosed, DecryptionRequested and DecryptionCompleted events emitted *)
(* before the step): a step that emits DecryptionCompleted(r, b, _) emits  *)
(* one such event, no completion for r was emitted before, and             *)
(* DecryptionRequested(r, b) was; a step that emits                        *)
(* DecryptionRequested(r, b) does so after BatchClosed(b) was emitted, and *)
(* no request for r was emitted before; the log only grows.  (The receipt  *)
(* of a call stays in events while time passes, so only call steps emit.)  *)
C26_EventOrder ==
    [][/\ lifecycleLog \subseteq lifecycleLog'
       /\ (CallStep /\ outcome' = "ok") =>
             /\ \A e \in Emitted("DecryptionCompleted") :
                   /\ Cardinality(Emitted("DecryptionCompleted")) = 1
                   /\ ~\E d \in lifecycleLog :
                         d.name = "DecryptionCompleted" /\ d.requestId = e.requestId
                   /\ [name |-> "DecryptionRequested", requestId |-> e.requestId,
                       batchId |-> e.batchId] \in lifecycleLog
             /\ \A e \in Emitted("DecryptionRequested") :
                   /\ ~\E d \in lifecycleLog :
                         d.name = "DecryptionRequested" /\ d.requestId = e.requestId
                   /\ [name |-> "BatchClosed", batchId |-> e.batchId] \in lifecycleLog]_vars

\* The log holds a closure, a request and its completion for batch 1.
C26_Witness ==
    /\ [name |-> "BatchClosed", batchId |-> 1] \in lifecycleLog
    /\ [name |-> "DecryptionRequested", requestId |-> 0, batchId |-> 1] \in lifecycleLog
    /\ \E d \in lifecycleLog :
          d.name = "DecryptionCompleted" /\ d.requestId = 0 /\ d.batchId = 1

(* C27: with the oracle weakly fair in delivering its answer to each       *)
(* issued request, every issued request is eventually processed, whatever  *)
(* calls are interleaved; and a pending request stays issued and pending   *)
(* through every step that is not an accepted callback for it.             *)
C27_EventuallyProcessed ==
    /\ \A r \in RequestIds : Issued(r) ~> decryptionContexts[r].processed
    /\ [][\A r \in RequestIds :
             ( /\ Issued(r) /\ ~decryptionContexts[r].processed
               /\ ~( called' = "myCallback" /\ outcome' = "ok"
                     /\ Len(events') = 1 /\ IsCompletion(events'[1], r) ) )
             => r < counterRequest' /\ ~decryptionContexts'[r].processed]_vars

\* A request was processed although, since it was issued, the contract was
\* paused and its requester removed from the providers.
C27_Witness ==
    /\ decryptionContexts[0].processed
    /\ paused
    /\ \A a \in Addresses : ~isProvider[a]
    /\ called = "myCallback" /\ outcome = "ok"

\* What the claim lets the callback depend on: the stored context, the
\* current slot of its batch, and whether the proof is valid for the
\* cleartexts (and whether these decode).
CallbackView(requestId, cleartexts, proof) ==
    [ctx |-> decryptionContexts[requestId],
     slot |-> encryptedData[decryptionContexts[requestId].batchId],
     valid |-> requestedHandles[requestId] # << >>
               /\ ValidProof(requestId, cleartexts, proof),
     decodes |-> AbiDecodable(cleartexts)]

\* The result as a function of that view alone.
ResultOf(view) ==
    IF view.ctx.processed THEN "ReplayAttempt"
    ELSE IF <<"keccak256", << view.slot >>, This>> # view.ctx.stateHash THEN "StateMismatch"
    ELSE IF ~view.valid THEN "InvalidProof"
    ELSE IF ~view.decodes THEN "DecodeError"
    ELSE "ok"

(* C28: in every myCallback(r, cleartexts, proof) step the result is       *)
(* ResultOf of the view (a function of the stored context, the current     *)
(* slot and the proof's validity that mentions neither the caller, nor     *)
(* paused, nor the providers, nor the owner); the step is the same step    *)
(* for every caller; and the state change is a function of the view too:   *)
(* nothing when rejected, and when accepted the context marked processed,  *)
(* the completion event for (r, its batch, the decoded cleartext) and      *)
(* nothing else.                                                           *)
C28_CallbackDependsOnContextOnly ==
    [][called' = "myCallback" =>
          \A s \in Addresses, r \in RequestArgs, m \in Responses :
             myCallback(s, r, m.cleartexts, m.proof) =>
                LET view == CallbackView(r, m.cleartexts, m.proof) IN
                /\ outcome' = ResultOf(view)
                /\ \A t \in Addresses : myCallback(t, r, m.cleartexts, m.proof)
                /\ IF ResultOf(view) = "ok"
                   THEN /\ decryptionContexts' = [decryptionContexts EXCEPT
                               ![r] = [view.ctx EXCEPT !.processed = TRUE]]
                        /\ events' = << [name |-> "DecryptionCompleted", requestId |-> r,
                                         batchId |-> view.ctx.batchId,
                                         decryptedValue |-> m.cleartexts[2]] >>
                        /\ UNCHANGED <<owner, isProvider, paused, cooldownSeconds,
                                       lastSubmissionTime, lastDecryptionRequestTime,
                                       currentBatchId, batchClosed, encryptedData, oracle>>
                   ELSE NoEffect]_vars

\* A callback was accepted while the contract is paused.
C28_Witness ==
    /\ called = "myCallback" /\ outcome = "ok"
    /\ paused
    /\ counterRequest = 1
    /\ decryptionContexts[0].processed

(* C29: in every reachable state, every context stored by                  *)
(* requestDecryptionForBatch belongs to a closed batch and the hash        *)
(* recomputed from the current slot of its batchId equals its stored       *)
(* stateHash; no step writes the slot of a closed batch; and no myCallback *)
(* for an issued request id ends in StateMismatch.                         *)
C29_IssuedNeverMismatches ==
    /\ [](\A r \in RequestIds : Issued(r) =>
              /\ batchClosed[decryptionContexts[r].batchId]
              /\ _hashCiphertexts(<< toBytes32(encryptedData[decryptionContexts[r].batchId]) >>)
                    = decryptionContexts[r].stateHash)
    /\ [][/\ \A b \in BatchIds : batchClosed[b] => encryptedData'[b] = encryptedData[b]
          /\ called' = "myCallback" =>
                \A s \in Addresses, r \in RequestArgs, m \in Responses :
                   (Issued(r) /\ myCallback(s, r, m.cleartexts, m.proof))
                      => outcome' # "StateMismatch"]_vars

\* A callback for an issued request whose batch holds a submitted
\* ciphertext was accepted.
C29_Witness ==
    /\ called = "myCallback" /\ outcome = "ok"
    /\ Issued(0) /\ decryptionContexts[0].processed
    /\ encryptedData[decryptionContexts[0].batchId] # 0

\* The call failed at its cooldown check.
Throttled == outcome' \in {"CooldownActive", "Panic"}

(* C30: for a provider p calling while the contract is not paused: if p    *)
(* has never submitted (lastSubmissionTime[p] = 0) its submitEncryptedData *)
(* ends in CooldownActive exactly when now < cooldownSeconds, and if p has *)
(* never requested (lastDecryptionRequestTime[p] = 0) so does its          *)
(* requestDecryptionForBatch; and in general each of the two calls fails   *)
(* at its cooldown check exactly when now < last + cooldownSeconds, with   *)
(* cooldownSeconds as it is at the time of the call, whatever it was when  *)
(* last was recorded.                                                      *)
C30_ThrottleUsesCurrentCooldown ==
    [][/\ called' = "submitEncryptedData" =>
             \A p \in Addresses, h \in Handles :
                (isProvider[p] /\ ~paused /\ submitEncryptedData(p, h)) =>
                   /\ lastSubmissionTime[p] = 0 =>
                         (outcome' = "CooldownActive" <=> now < cooldownSeconds)
                   /\ Throttled <=> now < lastSubmissionTime[p] + cooldownSeconds
       /\ called' = "requestDecryptionForBatch" =>
             \A p \in Addresses, b \in BatchArgs :
                (isProvider[p] /\ ~paused /\ requestDecryptionForBatch(p, b)) =>
                   /\ lastDecryptionRequestTime[p] = 0 =>
                         (outcome' = "CooldownActive" <=> now < cooldownSeconds)
                   /\ Throttled <=> now < lastDecryptionRequestTime[p] + cooldownSeconds]_vars

\* The first submission of a provider was refused with CooldownActive:
\* nobody has submitted yet and the time is below cooldownSeconds.
C30_Witness ==
    /\ called = "submitEncryptedData" /\ outcome = "CooldownActive"
    /\ \A a \in Addresses : lastSubmissionTime[a] = 0
    /\ \E a \in Addresses : isProvider[a]
    /\ ~paused
    /\ now < cooldownSeconds

\* The oracle's answer to request r: the decryption of the handles it was
\* given at the request, with its signature.
OracleAnswer(r) == KmsResponse(requestedHandles[r][1])

(* C31: requests for the same batch each have their own context: in every  *)
(* reachable state two issued requests with the same batchId store the     *)
(* same stateHash and were given the same handles; and in every myCallback *)
(* step that delivers the oracle's answer for an issued request r, the     *)
(* call is accepted exactly when r is not yet processed and refused with   *)
(* ReplayAttempt exactly when it is, whatever the processed flags of the   *)
(* other requests are, and it leaves every other request's context as it   *)
(* was.                                                                    *)
C31_RequestsIndependent ==
    /\ [](\A r1 \in RequestIds, r2 \in RequestIds :
             ( /\ Issued(r1) /\ Issued(r2)
               /\ decryptionContexts[r1].batchId = decryptionContexts[r2].batchId )
             => /\ decryptionContexts[r1].stateHash = decryptionContexts[r2].stateHash
                /\ requestedHandles[r1] = requestedHandles[r2])
    /\ [][called' = "myCallback" =>
             \A s \in Addresses, r \in RequestIds :
                ( /\ Issued(r)
                  /\ myCallback(s, r, OracleAnswer(r).cleartexts, OracleAnswer(r).proof) )
                => /\ outcome' = "ok" <=> ~decryptionContexts[r].processed
                   /\ outcome' = "ReplayAttempt" <=> decryptionContexts[r].processed
                   /\ outcome' = "ok" => decryptionContexts'[r].processed
                   /\ \A q \in RequestIds :
                         q # r => decryptionContexts'[q] = decryptionContexts[q]]_vars

\* Two requests are issued for the same batch and the later one has just
\* been processed while the earlier one is still outstanding.
C31_Witness ==
    /\ called = "myCallback" /\ outcome = "ok"
    /\ Issued(0) /\ Issued(1)
    /\ decryptionContexts[0].batchId = decryptionContexts[1].batchId
    /\ ~decryptionContexts[0].processed
    /\ decryptionContexts[1].processed

\* The key index of the store.
KeyIndex == { ReadKeys[i] : i \in 1 .. Len(ReadKeys) }
\* No run is under way and every transaction is mined.
UiQuiescent == mempool = << >> /\ \A c \in DOMAIN ui : ui[c].step = "idle"
\* Every run a client started has completed.
AllRunsCompleted ==
    \A c \in DOMAIN ui : ui[c].migrated = { <<c, k>> : k \in 1 .. ui[c].runs }

(* C32 (as stated): once the migrateRecord runs of the two clients have    *)
(* all completed, however they interleaved, and their transactions are     *)
(* mined, every record id they wrote is in the key index                   *)
(* "db_record_keys", and no record blob is stored without its id in the    *)
(* index.                                                                  *)
C32_AsStated ==
    (UiQuiescent /\ AllRunsCompleted /\ DOMAIN ui = Clients) =>
        /\ \A c \in DOMAIN ui : ui[c].migrated \subseteq KeyIndex
        /\ \A id \in RecordIds : Len(getData(RecordKey(id))) > 0 => id \in KeyIndex

====
